---- MODULE Spec2Model ----
(***************************************************************************)
(* aqueduct-api: the webhook receiver (POST), the admin token-retrieval    *)
(* endpoint (GET), the verification token channel, the fixed-window rate   *)
(* limiter with its blocking acquire, and the events-queue worker.         *)
(*                                                                         *)
(* The external services (the key-value store, the counter service and     *)
(* the hosted queue store) are modelled by what each request does to       *)
(* them; every awaited request of a handler is one atomic step, so that    *)
(* handlers of different processes interleave between their requests.      *)
(***************************************************************************)
EXTENDS Integers, Sequences, FiniteSets, TLC

\* ------------------------------------------------------------------ bounds
MaxReq == 2          \* webhook deliveries per behaviour
MaxCallers == 3      \* concurrent callers of the token channel
MaxTokTicks == 3     \* clock ticks of the token channel's clock
MaxFail == 1         \* upstream requests that fail while requests and runs interleave
MaxBatchFail == 2    \* upstream requests that fail in a lone worker run
MaxRuns == 2         \* worker runs per behaviour
MaxBatch == 4        \* rows in the queue when a lone worker run starts
MaxLimTicks == 6     \* clock ticks of the rate limiter's clock

\* ------------------------------------------------------ program constants
TtlSec == 600        \* { ex: 10 * 60 }
NewPageSize == 25    \* queryNewEvents(dsId, 25)
DedupPageSize == 10  \* findByEventId: page_size: 10
ErrorSlice == 500    \* String(err).slice(0, 500)
Rps == 3             \* intEnv("AQUEDUCT_NOTION_RPS", 3)
WindowMs == 1000     \* Ratelimit.fixedWindow(rps, "1 s")
MinWaitMs == 250     \* Math.max(250, ...)

VARIABLES
    now,        \* wall clock, ms
    env,        \* process.env: which settings are configured
    pc,         \* position of each request handler / library call
    call,       \* what each request is (kind and inputs)
    resp,       \* the handler's response / the call's return value
    local,      \* locals of a handler that live across an await
    redis,      \* the key-value store: key -> [val, exp]
    rows,       \* the queue store: page id -> Event Record
    run,        \* each worker run: its position and main's locals
    counter,    \* the counter service: the current window's key and its count
    lim,        \* each caller of the rate limiter: its position and locals
    grants,     \* history: the requests the counter granted
    traffic,    \* history: upstream requests each handler issued
    hist        \* history: what the calls so far did (not program state)

vars == <<now, env, pc, call, resp, local, redis, rows, run, counter, lim, grants,
          traffic, hist>>

limVars == <<counter, lim, grants>>
queueVars == <<rows, run, traffic, limVars>>
reqVars == <<pc, call, resp, local>>

Max(a, b) == IF a >= b THEN a ELSE b
Min(a, b) == IF a <= b THEN a ELSE b

\* The processes that issue requests: webhook deliveries in the pipeline,
\* callers of the token channel.
Deliveries == 1..MaxReq
Callers == 1..MaxCallers
Reqs == Deliveries \cup Callers

\* ------------------------------------------------------------ key-value store
KEY == "aqueduct:notion:verification_token"
USED_KEY == "aqueduct:notion:verification_token_used"

Null == "null"
Tokens == {"tokA", "tokB"}
TtlMs == TtlSec * 1000
TokTick == TtlMs \div 2

\* GET: an expired key is gone.
RedisGet(k) ==
    IF redis[k].val # Null /\ now < redis[k].exp THEN redis[k].val ELSE Null

\* SET k v EX ttl
RedisSet(k, v) == [redis EXCEPT ![k] = [val |-> v, exp |-> now + TtlMs]]

\* A DEL that leaves the key in place.
RedisDelNothing(k) == redis

\* DEL k
RedisDel(k) == [redis EXCEPT ![k] = [val |-> Null, exp |-> 0]]

EmptyRedis == [k \in {KEY, USED_KEY} |-> [val |-> Null, exp |-> 0]]

\* ------------------------------------------------------------ requests
NoCall == [kind |-> "none"]
NoResp == [status |-> 0, body |-> Null]
NoLocal == [tok |-> Null, readAt |-> -1]
NoTraffic == [gets |-> 0, queries |-> 0, creates |-> 0, patches |-> 0]

\* A caller is free to issue a call when its previous one has returned.
Free(r) == pc[r] \in {"idle", "done"}

Respond(r, status, body) == [resp EXCEPT ![r] = [status |-> status, body |-> body]]

\* ------------------------------------------------- storeVerificationToken
\* First awaited request of store(token): redis.set(KEY, token, {ex}).
\* Without a configured backend the call is a no-op.
storeVerificationToken(r, token) ==
    /\ Free(r)
    /\ call' = [call EXCEPT ![r] = [kind |-> "store", token |-> token, setAt |-> now]]
    /\ resp' = [resp EXCEPT ![r] = NoResp]
    /\ local' = [local EXCEPT ![r] = NoLocal]
    /\ IF ~env.redis
         THEN /\ pc' = [pc EXCEPT ![r] = "done"]
              /\ UNCHANGED <<redis, hist>>
         ELSE /\ redis' = RedisSet(KEY, token)
              /\ pc' = [pc EXCEPT ![r] = "store_del"]
              /\ hist' = [hist EXCEPT !.handshake = Null]
    /\ UNCHANGED <<now, env, queueVars>>

\* A store(token) that leaves the used marker alone.
storeKeepUsed(r) ==
    /\ pc[r] = "store_del"
    /\ redis' = redis
    /\ pc' = [pc EXCEPT ![r] = "done"]
    /\ hist' = [hist EXCEPT !.stored = call[r].token, !.storedAt = call[r].setAt,
                            !.taken = FALSE, !.restored = hist.taken]
    /\ UNCHANGED <<now, env, call, resp, local, queueVars>>

\* Second awaited request of store(token): redis.del(USED_KEY).
storeDelUsed(r) ==
    /\ pc[r] = "store_del"
    /\ redis' = RedisDel(USED_KEY)
    /\ pc' = [pc EXCEPT ![r] = "done"]
    /\ hist' = [hist EXCEPT !.stored = call[r].token, !.storedAt = call[r].setAt,
                            !.taken = FALSE, !.restored = hist.taken]
    /\ UNCHANGED <<now, env, call, resp, local, queueVars>>

\* ------------------------------------------------------- admin endpoint GET
AdminSecret == "s3cret"
Headers == {AdminSecret, "wrong"}

\* A comparison that lets every header through.
AuthorizedAny(provided) == TRUE

\* provided !== expected
Authorized(provided) == provided = AdminSecret

\* What a caller that starts now, with no other call in flight, is entitled
\* to from consume(): the token of the last store() unless a consume() has
\* returned it already; and the token of the last verification handshake.
Owed == IF hist.taken THEN Null ELSE hist.stored

\* GET up to its first awaited request: the secret checks, then
\* consumeVerificationToken() up to redis.get(USED_KEY).
GET(r, provided) ==
    /\ Free(r)
    /\ call' = [call EXCEPT ![r] =
                  [kind |-> "admin", provided |-> provided,
                   followsStore |-> hist.stored # Null,
                   restored |-> hist.restored, taken |-> hist.taken,
                   owed |-> Owed, owedUntil |-> hist.storedAt + TtlMs,
                   handshake |-> hist.handshake,
                   handshakeUntil |-> hist.handshakeAt + TtlMs]]
    /\ local' = [local EXCEPT ![r] = NoLocal]
    /\ IF ~env.admin
         THEN /\ resp' = Respond(r, 500, Null)
              /\ pc' = [pc EXCEPT ![r] = "done"]
              /\ UNCHANGED hist
         ELSE IF ~Authorized(provided)
         THEN /\ resp' = Respond(r, 401, Null)
              /\ pc' = [pc EXCEPT ![r] = "done"]
              /\ UNCHANGED hist
         ELSE IF ~env.redis \/ RedisGet(USED_KEY) # Null
         THEN /\ resp' = Respond(r, 404, Null)
              /\ pc' = [pc EXCEPT ![r] = "done"]
              /\ hist' = [hist EXCEPT !.handshake = Null]
         ELSE /\ pc' = [pc EXCEPT ![r] = "consume_get"]
              /\ resp' = [resp EXCEPT ![r] = NoResp]
              /\ hist' = [hist EXCEPT !.handshake = Null]
    /\ UNCHANGED <<now, env, redis, queueVars>>

\* consumeVerificationToken: redis.get(KEY).
consumeGetKey(r) ==
    /\ pc[r] = "consume_get"
    /\ LET tok == RedisGet(KEY) IN
       /\ local' = [local EXCEPT ![r] = [tok |-> tok, readAt |-> now]]
       /\ IF tok = Null
            THEN /\ resp' = Respond(r, 404, Null)
                 /\ pc' = [pc EXCEPT ![r] = "done"]
            ELSE /\ pc' = [pc EXCEPT ![r] = "consume_mark"]
                 /\ UNCHANGED resp
    /\ UNCHANGED <<now, env, call, redis, hist, queueVars>>

\* consumeVerificationToken: redis.set(USED_KEY, "1", {ex}).
consumeSetUsed(r) ==
    /\ pc[r] = "consume_mark"
    /\ redis' = RedisSet(USED_KEY, "1")
    /\ pc' = [pc EXCEPT ![r] = "consume_del"]
    /\ UNCHANGED <<now, env, call, resp, local, hist, queueVars>>

\* consumeVerificationToken: redis.del(KEY), then return tok; GET answers
\* with the token.
consumeDelKey(r) ==
    /\ pc[r] = "consume_del"
    /\ redis' = RedisDel(KEY)
    /\ resp' = Respond(r, 200, local[r].tok)
    /\ pc' = [pc EXCEPT ![r] = "done"]
    /\ hist' = [hist EXCEPT !.taken = TRUE]
    /\ UNCHANGED <<now, env, call, local, queueVars>>


\* ------------------------------------------------------------ rate limiter
\* The receiver acquires with throttleOrWait (lib), the worker with throttle
\* (script).
LimCallers == {"receiver", "worker"}

IsWorker(c) == c = "worker"

NoLim == [pc |-> "idle", ok |-> TRUE, reset |-> 0, deniedAt |-> -1, wakeAt |-> 0,
          askedAt |-> -1, returned |-> FALSE]

InitLimVars ==
    /\ counter = [bucket |-> 0, count |-> 0]
    /\ lim = [c \in LimCallers |-> NoLim]
    /\ grants = [log |-> <<>>, bucket |-> 0, n |-> 0]

\* A counter that compares the count before the increment.
FixedWindowBefore(tokens, window) ==
    LET bucket == now \div window
        used == (IF counter.bucket = bucket THEN counter.count ELSE 0) + 1
    IN  [bucket |-> bucket, count |-> used,
         success |-> used - 1 <= tokens, reset |-> (bucket + 1) * window]

\* Ratelimit.fixedWindow(tokens, window).limit(key): the counter of the
\* window that holds `now` is incremented, and the request is granted when the
\* count does not exceed tokens; reset is the end of that window. The key of
\* an earlier window has expired.
FixedWindow(tokens, window) ==
    LET bucket == now \div window
        used == (IF counter.bucket = bucket THEN counter.count ELSE 0) + 1
    IN  [bucket |-> bucket, count |-> used,
         success |-> used <= tokens, reset |-> (bucket + 1) * window]

\* getLimiter("notion").limit / limiter.limit("global"): one request to the
\* counter service by caller c.
Limit(c) ==
    LET res == FixedWindow(Rps, WindowMs) IN
    /\ counter' = [bucket |-> res.bucket, count |-> res.count]
    /\ lim' = [lim EXCEPT ![c].pc = "answered", ![c].ok = res.success,
                          ![c].reset = res.reset, ![c].askedAt = now,
                          ![c].wakeAt = 0]
    /\ grants' = IF res.success
                   THEN [log |-> Append(grants.log, now), bucket |-> res.bucket,
                         n |-> (IF grants.bucket = res.bucket THEN grants.n ELSE 0) + 1]
                   ELSE grants

\* A wait without the floor.
throttleOrWaitMsNoFloor(resetMs) == resetMs - now

\* throttleOrWait's wait after a denial: Math.max(250, resetMs - now).
throttleOrWaitMs(resetMs) == Max(MinWaitMs, resetMs - now)

\* throttle's wait after a denial: Math.max(250, res.reset - Date.now()).
throttleWaitMs(reset) == Max(MinWaitMs, reset - now)

\* An acquire starts: throttleOrWait / throttle up to the first request to
\* the counter. Without a backend it returns at once.
acquire(c) ==
    /\ lim[c].pc = "idle"
    /\ IF env.redis
         THEN Limit(c)
         ELSE /\ lim' = [lim EXCEPT ![c].returned = TRUE]
              /\ UNCHANGED <<counter, grants>>
    /\ UNCHANGED <<now, env, reqVars, redis, rows, run, traffic, hist>>

\* The counter's answer arrives: return when granted (the call's locals are
\* gone), else sleep.
answered(c) ==
    /\ lim[c].pc = "answered"
    /\ lim' = IF lim[c].ok
                THEN [lim EXCEPT ![c] = [NoLim EXCEPT !.returned = TRUE]]
                ELSE [lim EXCEPT ![c].pc = "sleeping", ![c].deniedAt = now,
                                 ![c].askedAt = -1,
                                 ![c].wakeAt = now + IF IsWorker(c)
                                                       THEN throttleWaitMs(lim[c].reset)
                                                       ELSE throttleOrWaitMs(lim[c].reset)]
    /\ UNCHANGED <<now, env, reqVars, redis, rows, run, traffic, hist, counter, grants>>

\* The timer fires, not before its delay is over: the next request to the
\* counter.
retry(c) ==
    /\ lim[c].pc = "sleeping"
    /\ now >= lim[c].wakeAt
    /\ Limit(c)
    /\ UNCHANGED <<now, env, reqVars, redis, rows, run, traffic, hist>>

\* A fetch that does not wait for the limiter.
FetchedUnthrottled(c) == UNCHANGED limVars

\* notionFetch issues its request once the acquire before it has returned;
\* that acquire serves this request only. Without a counter backend the
\* acquire returns at once, within the step that issues the request.
Fetched(c) ==
    IF env.redis
      THEN /\ lim[c].pc = "idle" /\ lim[c].returned
           /\ lim' = [lim EXCEPT ![c].returned = FALSE]
           /\ UNCHANGED <<counter, grants>>
      ELSE UNCHANGED limVars

LimTick == MinWaitMs

LimTickStep ==
    /\ now < MaxLimTicks * LimTick
    /\ now' = now + LimTick
    /\ grants' = [grants EXCEPT !.log = SelectSeq(@, LAMBDA t : t > now' - WindowMs)]
    /\ UNCHANGED <<env, reqVars, redis, rows, run, traffic, hist, counter, lim>>

\* ------------------------------------------------------------ signatures
HexChars == <<"0", "1", "2", "3", "4", "5", "6", "7",
              "8", "9", "a", "b", "c", "d", "e", "f">>
UpperChars == <<"0", "1", "2", "3", "4", "5", "6", "7",
                "8", "9", "A", "B", "C", "D", "E", "F">>

\* The value of one hex digit, upper or lower case; -1 for any other character.
HexVal(c) ==
    IF \E i \in 1..16 : HexChars[i] = c
      THEN (CHOOSE i \in 1..16 : HexChars[i] = c) - 1
    ELSE IF \E i \in 1..16 : UpperChars[i] = c
      THEN (CHOOSE i \in 1..16 : UpperChars[i] = c) - 1
    ELSE -1

\* Buffer.from(s, "hex"): two digits per byte; decoding stops at the first
\* pair that is not two hex digits, and a trailing single character is dropped.
RECURSIVE BufferFromHex(_)
BufferFromHex(s) ==
    IF Len(s) < 2 \/ HexVal(s[1]) = -1 \/ HexVal(s[2]) = -1
      THEN <<>>
      ELSE <<16 * HexVal(s[1]) + HexVal(s[2])>> \o BufferFromHex(SubSeq(s, 3, Len(s)))

\* digest("hex"): two lower-case digits per byte.
RECURSIVE ToHex(_)
ToHex(bytes) ==
    IF bytes = <<>> THEN <<>>
    ELSE <<HexChars[(bytes[1] \div 16) + 1], HexChars[(bytes[1] % 16) + 1]>>
         \o ToHex(Tail(bytes))

\* HMAC-SHA256 as a keyed digest without collisions on the secrets and bodies
\* of the model; two bytes stand for the thirty-two of the real digest.
Digest(secret, payload) ==
    <<(160 + 16 * secret + payload) % 256, (31 * payload + 7 * secret) % 256>>

hmacSha256Hex(secret, payload) == ToHex(Digest(secret, payload))

timingSafeEqualHex(a, b) ==
    LET ab == BufferFromHex(a)
        bb == BufferFromHex(b)
    IN  IF Len(ab) # Len(bb) THEN FALSE ELSE ab = bb

\* WEBHOOK_VERIFICATION_TOKEN when configured, and a secret it is not.
Secret == 1
OtherSecret == Secret + 1

\* ------------------------------------------------------------ request bodies
\* raw: the body's bytes (what the signature is computed over); json: whether
\* JSON.parse accepts it; token: its verification_token; id: its event id.
EventIds == {"evt1", "evt2"}

Bodies ==
    {[raw |-> 1, json |-> TRUE, token |-> "tokA", id |-> Null],
     [raw |-> 2, json |-> TRUE, token |-> Null, id |-> "evt1"],
     [raw |-> 3, json |-> TRUE, token |-> Null, id |-> "evt2"],
     [raw |-> 4, json |-> TRUE, token |-> Null, id |-> Null],
     [raw |-> 5, json |-> FALSE, token |-> Null, id |-> Null]}

EventBody(e) == CHOOSE b \in Bodies : b.json /\ b.token = Null /\ b.id = e
BootstrapBody(t) == CHOOSE b \in Bodies : b.json /\ b.token = t

Upper(s) == [i \in 1..Len(s) |-> UpperChars[HexVal(s[i]) + 1]]
FlipFirst(s) == [s EXCEPT ![1] = HexChars[((HexVal(s[1]) + 1) % 16) + 1]]

\* The x-notion-signature headers a sender may supply with a body: none, the
\* right one, the right one in upper case, followed by other characters, cut
\* short, with one digit changed, prefixed, and the signatures of another
\* secret and of another body.
Signatures(b) ==
    LET good == hmacSha256Hex(Secret, b.raw) IN
    {<<>>, good, Upper(good), good \o <<"z", "z">>, SubSeq(good, 1, 2),
     FlipFirst(good), <<"s", "h", "a", "=">> \o good,
     hmacSha256Hex(OtherSecret, b.raw), hmacSha256Hex(Secret, (b.raw % 5) + 1)}

\* ------------------------------------------------------------ queue store
\* A page written with the review checkbox ticked.
NewRowFlagged(eventId, createdTime) ==
    [eventId |-> eventId, status |-> "New", review |-> TRUE, created |-> createdTime,
     log |-> [kind |-> "queued", len |-> 0]]

\* An Event Record as the receiver writes it (writeEventToQueue's page). Of
\* the log, the kind of its line and the length of an error's text are kept.
NewRow(eventId, createdTime) ==
    [eventId |-> eventId, status |-> "New", review |-> FALSE, created |-> createdTime,
     log |-> [kind |-> "queued", len |-> 0]]

RowIds == 1..Len(rows)

\* An upstream request may fail (non-2xx); notionFetch then throws.
MayFail(ok) == ok \/ hist.fails < hist.maxFails
CountFail(ok) == [hist EXCEPT !.fails = IF ok THEN @ ELSE @ + 1]

Sent(r, what) == [traffic EXCEPT ![r][what] = @ + 1]

\* ------------------------------------------------------------ webhook POST
\* POST up to its first awaited upstream request: the bootstrap echo, the
\* signature gate and the parse of the event envelope.
POST(r, body, signature) ==
    /\ Free(r)
    /\ call' = [call EXCEPT ![r] =
                  [kind |-> "webhook", body |-> body, signature |-> signature,
                   after |-> {q \in Reqs : /\ pc[q] = "done"
                                            /\ call[q].kind = "webhook"
                                            /\ call[q].body.id = body.id
                                            /\ resp[q].body = "ok"}]]
    /\ local' = [local EXCEPT ![r] = NoLocal]
    /\ traffic' = [traffic EXCEPT ![r] = NoTraffic]
    /\ IF body.json /\ body.token # Null
         THEN /\ resp' = Respond(r, 200, body.token)
              /\ pc' = [pc EXCEPT ![r] = "done"]
              /\ hist' = [hist EXCEPT !.handshake = body.token, !.handshakeAt = now]
         ELSE /\ UNCHANGED hist
              /\ IF ~env.secret
                   THEN /\ resp' = Respond(r, 500, "Missing NOTION_WEBHOOK_VERIFICATION_TOKEN")
                        /\ pc' = [pc EXCEPT ![r] = "done"]
                 ELSE IF signature = <<>>
                         \/ ~timingSafeEqualHex(signature, hmacSha256Hex(Secret, body.raw))
                   THEN /\ resp' = Respond(r, 401, "Invalid signature")
                        /\ pc' = [pc EXCEPT ![r] = "done"]
                 ELSE IF ~body.json
                   THEN /\ resp' = Respond(r, 400, "Invalid JSON")
                        /\ pc' = [pc EXCEPT ![r] = "done"]
                 ELSE IF ~env.db
                   THEN /\ resp' = Respond(r, 500, "Missing NOTION_EVENTS_QUEUE_DB_ID")
                        /\ pc' = [pc EXCEPT ![r] = "done"]
                 ELSE IF body.id = Null
                   THEN /\ resp' = Respond(r, 400, "Missing event id")
                        /\ pc' = [pc EXCEPT ![r] = "done"]
                 ELSE /\ pc' = [pc EXCEPT ![r] = "post_resolve"]
                      /\ resp' = [resp EXCEPT ![r] = NoResp]
    /\ UNCHANGED <<now, env, redis, rows, run, limVars>>

\* An upstream failure inside POST is not caught: the request ends with 500.
PostThrow(r) ==
    /\ resp' = Respond(r, 500, "Notion API error")
    /\ pc' = [pc EXCEPT ![r] = "done"]

\* getDatabaseDataSourceId: GET /databases/{id}.
getDatabaseDataSourceId(r, ok) ==
    /\ pc[r] = "post_resolve"
    /\ MayFail(ok)
    /\ traffic' = Sent(r, "gets")
    /\ hist' = CountFail(ok)
    /\ IF ok THEN pc' = [pc EXCEPT ![r] = "post_exists"] /\ UNCHANGED resp
             ELSE PostThrow(r)
    /\ Fetched("receiver")
    /\ UNCHANGED <<now, env, call, local, redis, rows, run>>

\* A filter that also asks for the status New.
EventIdFilterNewOnly(row, eventId) == row.eventId = eventId /\ row.status = "New"

\* eventExists' filter: the rich text "Event ID" equals eventId.
EventIdFilter(row, eventId) == row.eventId = eventId

\* eventExists: query by "Event ID", page_size 1; then the deduped answer.
eventExists(r, ok) ==
    /\ pc[r] = "post_exists"
    /\ MayFail(ok)
    /\ traffic' = Sent(r, "queries")
    /\ hist' = CountFail(ok)
    /\ IF ~ok THEN PostThrow(r)
       ELSE IF \E i \in RowIds : EventIdFilter(rows[i], call[r].body.id)
         THEN /\ resp' = Respond(r, 200, "ok deduped")
              /\ pc' = [pc EXCEPT ![r] = "done"]
         ELSE /\ pc' = [pc EXCEPT ![r] = "post_write"]
              /\ UNCHANGED resp
    /\ Fetched("receiver")
    /\ UNCHANGED <<now, env, call, local, redis, rows, run>>

\* writeEventToQueue: POST /pages; then the {ok: true} answer. The store
\* stamps the page with its created_time: `elapsed` is the time that went by
\* since the store last stamped a page, none when two pages are created within
\* one unit of the store's clock.
writeEventToQueue(r, ok, elapsed) ==
    /\ pc[r] = "post_write"
    /\ MayFail(ok)
    /\ traffic' = Sent(r, "creates")
    /\ hist' = CountFail(ok)
    /\ now' = now + elapsed
    /\ IF ok
         THEN /\ rows' = Append(rows, NewRow(call[r].body.id, now'))
              /\ resp' = Respond(r, 200, "ok")
              /\ pc' = [pc EXCEPT ![r] = "done"]
         ELSE /\ PostThrow(r)
              /\ UNCHANGED rows
    /\ Fetched("receiver")
    /\ UNCHANGED <<env, call, local, redis, run>>


\* ------------------------------------------------------------ queue queries
Runs == 1..MaxRuns

NoRun == [pc |-> "idle", batch |-> <<>>, i |-> 0, keeper |-> 0, err |-> 0,
          threw |-> {}, lost |-> {}]

\* Every listing of the rows S in ascending created_time; rows created at the
\* same time come in any order.
AscendingOrders(S) ==
    LET n == Cardinality(S)
        before(x) == Cardinality({y \in S : rows[y].created < rows[x].created})
    IN  IF \A x, y \in S : x # y => rows[x].created # rows[y].created
          THEN {[k \in 1..n |-> CHOOSE x \in S : before(x) = k - 1]}
          ELSE {q \in [1..n -> S] :
                  /\ \A j, k \in 1..n : j # k => q[j] # q[k]
                  /\ \A j, k \in 1..n : j < k => rows[q[j]].created <= rows[q[k]].created}

\* A query that returns every match.
FirstPageAll(seq, size) == seq

FirstPage(seq, size) == SubSeq(seq, 1, Min(size, Len(seq)))

\* queryNewEvents: the rows with Status = "New", sorted by created_time
\* ascending, one page of pageSize.
NewEventsPages(pageSize) ==
    {FirstPage(q, pageSize) :
       q \in AscendingOrders({i \in RowIds : rows[i].status = "New"})}

AscendingIds(S) ==
    [k \in 1..Cardinality(S) |-> CHOOSE x \in S : Cardinality({y \in S : y < x}) = k - 1]

\* findByEventId: the rows whose "Event ID" equals eventId, one page of
\* page_size 10, in no requested order: the store may return any page in any
\* order. Listed are, for every page, the orders that start with one of the
\* page's earliest rows; the stable sort puts the first of the earliest rows
\* in front, so these orders yield every keeper that any order yields.
EventIdPages(eventId) ==
    LET M == {i \in RowIds : rows[i].eventId = eventId}
        pages == IF Cardinality(M) <= DedupPageSize THEN {M}
                 ELSE {S \in SUBSET M : Cardinality(S) = DedupPageSize}
        earliest(S) == {x \in S : \A y \in S : rows[x].created <= rows[y].created}
    IN  IF M = {} THEN {<<>>}
        ELSE UNION {{<<h>> \o AscendingIds(S \ {h}) : h \in earliest(S)} : S \in pages}

\* results.sort(by created_time): Array.prototype.sort is stable, so a result
\* lands behind the results with an earlier created_time and behind those with
\* the same created_time that the store returned before it.
SortByCreatedTime(results) ==
    LET n == Len(results)
        rank(i) ==
            Cardinality({j \in 1..n : rows[results[j]].created < rows[results[i]].created})
            + Cardinality({j \in 1..i : rows[results[j]].created = rows[results[i]].created})
    IN  [k \in 1..n |-> results[CHOOSE i \in 1..n : rank(i) = k]]

\* The keeper processEvent computes from a query result for page pageId:
\* 0 when the row is kept (one result at most, or the row is the keeper).
Keeper(results, pageId) ==
    IF Len(results) > 1 /\ SortByCreatedTime(results)[1] # pageId
      THEN SortByCreatedTime(results)[1]
      ELSE 0

\* updatePage: PATCH /pages/{id} sets the given properties only.
Patched(pageId, status, review, log) ==
    [rows EXCEPT ![pageId].status = status, ![pageId].review = review,
                 ![pageId].log = log]

\* A record that a run has moved to 'Needs human review'.
Triaged(row) ==
    [row EXCEPT !.status = "Needs human review", !.review = TRUE,
                !.log = [kind |-> "no handler", len |-> 0]]

\* ------------------------------------------------------------ worker run
Page(w) == run[w].batch[run[w].i]

\* The lengths of String(err) an upstream failure can have.
ErrorLengths == {ErrorSlice - 460, ErrorSlice, ErrorSlice + 1}

\* main's for loop moves on to the next page, or the run is over.
NextPage(rw) ==
    IF rw.i < Len(rw.batch)
      THEN [rw EXCEPT !.pc = "mark", !.i = @ + 1, !.keeper = 0, !.err = 0]
      ELSE [rw EXCEPT !.pc = "done", !.keeper = 0, !.err = 0]

\* A main without the try/catch: the failure ends the run.
CaughtNowhere(w, len) ==
    [run EXCEPT ![w].pc = "aborted", ![w].err = len, ![w].threw = @ \cup {Page(w)}]

\* processEvent threw: main's catch takes over with the error's text.
Caught(w, len) ==
    [run EXCEPT ![w].pc = "catch", ![w].err = len, ![w].threw = @ \cup {Page(w)}]

\* main: getDataSourceId(DB_ID). A failure here rejects main: exit 1.
getDataSourceId(w, ok) ==
    /\ run[w].pc = "idle"
    /\ MayFail(ok)
    /\ hist' = CountFail(ok)
    /\ run' = [run EXCEPT ![w].pc = IF ok THEN "query" ELSE "aborted"]
    /\ Fetched("worker")
    /\ UNCHANGED <<now, env, reqVars, redis, rows, traffic>>

\* main: queryNewEvents(dsId, 25); an empty result ends the run.
queryNewEvents(w, ok) ==
    /\ run[w].pc = "query"
    /\ MayFail(ok)
    /\ hist' = CountFail(ok)
    /\ IF ok
         THEN \E results \in NewEventsPages(NewPageSize) :
                run' = [run EXCEPT ![w] =
                          NextPage([run[w] EXCEPT !.batch = results, !.i = 0])]
         ELSE run' = [run EXCEPT ![w].pc = "aborted"]
    /\ Fetched("worker")
    /\ UNCHANGED <<now, env, reqVars, redis, rows, traffic>>

\* processEvent: mark in-progress first.
markInProgress(w, ok) ==
    /\ run[w].pc = "mark"
    /\ MayFail(ok)
    /\ hist' = CountFail(ok)
    /\ IF ok
         THEN /\ rows' = [rows EXCEPT ![Page(w)].status = "In Progress"]
              /\ run' = [run EXCEPT ![w].pc = "find"]
         ELSE /\ \E len \in ErrorLengths : run' = Caught(w, len)
              /\ UNCHANGED rows
    /\ Fetched("worker")
    /\ UNCHANGED <<now, env, reqVars, redis, traffic>>

\* processEvent: findByEventId, the sort and the choice of the keeper.
findByEventId(w, ok) ==
    /\ run[w].pc = "find"
    /\ MayFail(ok)
    /\ hist' = CountFail(ok)
    /\ IF ok
         THEN \E results \in EventIdPages(rows[Page(w)].eventId) :
                LET keeper == Keeper(results, Page(w)) IN
                run' = [run EXCEPT ![w].keeper = keeper,
                                   ![w].pc = IF keeper # 0 THEN "dedupe" ELSE "review"]
         ELSE \E len \in ErrorLengths : run' = Caught(w, len)
    /\ Fetched("worker")
    /\ UNCHANGED <<now, env, reqVars, redis, rows, traffic>>

\* processEvent: the row is not the keeper: Deduped, review flag cleared.
markDeduped(w, ok) ==
    /\ run[w].pc = "dedupe"
    /\ MayFail(ok)
    /\ hist' = CountFail(ok)
    /\ IF ok
         THEN /\ rows' = Patched(Page(w), "Deduped", FALSE,
                                 [kind |-> "deduped", len |-> 0])
              /\ run' = [run EXCEPT ![w] = NextPage(run[w])]
         ELSE /\ \E len \in ErrorLengths : run' = Caught(w, len)
              /\ UNCHANGED rows
    /\ Fetched("worker")
    /\ UNCHANGED <<now, env, reqVars, redis, traffic>>

\* processEvent: no handler yet: Needs human review, review flag set.
markNeedsReview(w, ok) ==
    /\ run[w].pc = "review"
    /\ MayFail(ok)
    /\ hist' = CountFail(ok)
    /\ IF ok
         THEN /\ rows' = Patched(Page(w), "Needs human review", TRUE,
                                 [kind |-> "no handler", len |-> 0])
              /\ run' = [run EXCEPT ![w] = NextPage(run[w])]
         ELSE /\ \E len \in ErrorLengths : run' = Caught(w, len)
              /\ UNCHANGED rows
    /\ Fetched("worker")
    /\ UNCHANGED <<now, env, reqVars, redis, traffic>>

\* main's catch: best-effort patch to Error; its own failure is ignored.
markError(w, ok) ==
    /\ run[w].pc = "catch"
    /\ MayFail(ok)
    /\ hist' = CountFail(ok)
    /\ IF ok
         THEN /\ rows' = Patched(Page(w), "Error", TRUE,
                                 [kind |-> "error", len |-> Min(run[w].err, ErrorSlice)])
              /\ run' = [run EXCEPT ![w] = NextPage(run[w])]
         ELSE /\ run' = [run EXCEPT ![w] =
                           NextPage([run[w] EXCEPT !.lost = @ \cup {Page(w)}])]
              /\ UNCHANGED rows
    /\ Fetched("worker")
    /\ UNCHANGED <<now, env, reqVars, redis, traffic>>

\* The run's process is over (main returned, or rejected and exit(1)); the
\* next scheduled run starts from scratch.
exit(w) ==
    /\ run[w].pc \in {"done", "aborted"}
    /\ run' = [run EXCEPT ![w] = NoRun]
    /\ UNCHANGED <<now, env, reqVars, redis, rows, traffic, hist, limVars>>

\* One unit of the queue store's clock (created_time), ms.
ClockUnit == {0, 60 * 1000}

\* ------------------------------------------------------------ clock
TokTickStep ==
    /\ now < MaxTokTicks * TokTick
    /\ now' = now + TokTick
    /\ UNCHANGED <<env, pc, call, resp, local, redis, hist, queueVars>>

\* ------------------------------------------------------------ Init
NoHist == [fails |-> 0, maxFails |-> MaxFail, stored |-> Null, storedAt |-> 0,
           taken |-> FALSE, restored |-> FALSE, handshake |-> Null, handshakeAt |-> 0]

InitCommon ==
    /\ now = 0
    /\ pc = [r \in Reqs |-> "idle"]
    /\ call = [r \in Reqs |-> NoCall]
    /\ resp = [r \in Reqs |-> NoResp]
    /\ local = [r \in Reqs |-> NoLocal]
    /\ redis = EmptyRedis
    /\ rows = <<>>
    /\ run = [w \in Runs |-> NoRun]
    /\ InitLimVars
    /\ traffic = [r \in Reqs |-> NoTraffic]
    /\ hist = NoHist

\* The token channel: any configuration of the admin secret and the backend.
InitToken ==
    /\ InitCommon
    /\ env \in [admin : BOOLEAN, redis : BOOLEAN, secret : {TRUE}, db : {TRUE}]

\* Concurrent callers, one call each: the requests of different calls
\* interleave freely.
NextToken ==
    \/ \E r \in Callers, t \in Tokens : pc[r] = "idle" /\ storeVerificationToken(r, t)
    \/ \E r \in Callers : storeDelUsed(r)
    \/ \E r \in Callers, h \in Headers : pc[r] = "idle" /\ GET(r, h)
    \/ \E r \in Callers : consumeGetKey(r)
    \/ \E r \in Callers : consumeSetUsed(r)
    \/ \E r \in Callers : consumeDelKey(r)
    \/ \E r \in Callers : pc[r] = "idle" /\ POST(r, BootstrapBody("tokA"), <<>>)
    \/ TokTickStep

SpecToken == InitToken /\ [][NextToken]_vars

\* Sequential calls: one client issues call after call, each after the
\* previous one has returned.
Client == CHOOSE r \in Callers : \A q \in Callers : r <= q

NextTokenSeq ==
    \/ \E t \in Tokens : storeVerificationToken(Client, t)
    \/ storeDelUsed(Client)
    \/ \E h \in Headers : GET(Client, h)
    \/ consumeGetKey(Client)
    \/ consumeSetUsed(Client)
    \/ consumeDelKey(Client)
    \/ POST(Client, BootstrapBody("tokA"), <<>>)
    \/ TokTickStep

SpecTokenSeq == InitToken /\ [][NextTokenSeq]_vars

\* The receiver alone: any configuration of the secret and the queue id, any
\* body, any signature header; no counter backend, so no acquire waits.
InitGate ==
    /\ InitCommon
    /\ env \in [admin : {TRUE}, redis : {FALSE}, secret : BOOLEAN, db : BOOLEAN]

NextGate ==
    \/ \E r \in Deliveries, b \in Bodies : \E s \in Signatures(b) :
         pc[r] = "idle" /\ POST(r, b, s)
    \/ \E r \in Deliveries, ok \in BOOLEAN : getDatabaseDataSourceId(r, ok)
    \/ \E r \in Deliveries, ok \in BOOLEAN : eventExists(r, ok)
    \/ \E r \in Deliveries, ok \in BOOLEAN, dt \in ClockUnit : writeEventToQueue(r, ok, dt)

SpecGate == InitGate /\ [][NextGate]_vars

\* The pipeline: signed event deliveries and worker runs, all concurrent; no
\* counter backend, so no acquire waits.
Init ==
    /\ InitCommon
    /\ env = [admin |-> TRUE, redis |-> FALSE, secret |-> TRUE, db |-> TRUE]

\* Requests are interchangeable: they arrive in the order of their numbers.
Received(r) == IF r = 0 THEN TRUE ELSE pc[r] # "idle"

Worker(w) ==
    \/ \E ok \in BOOLEAN : getDataSourceId(w, ok)
    \/ \E ok \in BOOLEAN : queryNewEvents(w, ok)
    \/ \E ok \in BOOLEAN : markInProgress(w, ok)
    \/ \E ok \in BOOLEAN : findByEventId(w, ok)
    \/ \E ok \in BOOLEAN : markDeduped(w, ok)
    \/ \E ok \in BOOLEAN : markNeedsReview(w, ok)
    \/ \E ok \in BOOLEAN : markError(w, ok)

Receiver(r) ==
    \/ \E e \in EventIds :
         /\ pc[r] = "idle"
         /\ Received(r - 1)
         /\ POST(r, EventBody(e), hmacSha256Hex(Secret, EventBody(e).raw))
    \/ \E ok \in BOOLEAN : getDatabaseDataSourceId(r, ok)
    \/ \E ok \in BOOLEAN : eventExists(r, ok)
    \/ \E ok \in BOOLEAN, dt \in ClockUnit : writeEventToQueue(r, ok, dt)

Next ==
    \/ \E r \in Deliveries : Receiver(r)
    \/ Worker(1)
    \/ exit(1)

Spec == Init /\ [][Next]_vars

\* One worker run over a queue the receiver has filled: n rows in status New
\* with distinct creation times, the first `same` of them deliveries of one
\* event (written by receivers that raced) and the others of another event.
BatchRow(i, same) ==
    NewRow(IF i <= same THEN "evt1" ELSE "evt2", i * 60 * 1000)

InitQueue(sizes, maxFails) ==
    /\ now = 0
    /\ pc = [r \in Reqs |-> "idle"]
    /\ call = [r \in Reqs |-> NoCall]
    /\ resp = [r \in Reqs |-> NoResp]
    /\ local = [r \in Reqs |-> NoLocal]
    /\ redis = EmptyRedis
    /\ run = [w \in Runs |-> NoRun]
    /\ InitLimVars
    /\ traffic = [r \in Reqs |-> NoTraffic]
    /\ hist = [NoHist EXCEPT !.maxFails = maxFails]
    /\ env = [admin |-> TRUE, redis |-> FALSE, secret |-> TRUE, db |-> TRUE]
    /\ \E n \in sizes : \E same \in 0..n : rows = [i \in 1..n |-> BatchRow(i, same)]

InitBatch == InitQueue(1..MaxBatch, MaxBatchFail)

NextBatch == Worker(1)

SpecBatch == InitBatch /\ [][NextBatch]_vars

\* One worker run, no upstream failure, over a queue with one row more than a
\* page of findByEventId holds.
InitPage == InitQueue({DedupPageSize + 1}, 0)

NextPage1 ==
    \/ getDataSourceId(1, TRUE)
    \/ queryNewEvents(1, TRUE)
    \/ markInProgress(1, TRUE)
    \/ findByEventId(1, TRUE)
    \/ markDeduped(1, TRUE)
    \/ markNeedsReview(1, TRUE)

SpecPage == InitPage /\ [][NextPage1]_vars

\* One worker run over a queue with more New rows than a page of
\* queryNewEvents holds: three events, each delivered several times by
\* receivers that raced; page ids do not follow the creation times; the
\* first row may have been triaged by an earlier run.
EventOf(i) == IF i % 3 = 0 THEN "evt1" ELSE IF i % 3 = 1 THEN "evt2" ELSE "evt3"

CreatedOf(i) == ((i * 7) % (NewPageSize + 4)) * 60 * 1000

InitRun ==
    /\ now = 0
    /\ pc = [r \in Reqs |-> "idle"]
    /\ call = [r \in Reqs |-> NoCall]
    /\ resp = [r \in Reqs |-> NoResp]
    /\ local = [r \in Reqs |-> NoLocal]
    /\ redis = EmptyRedis
    /\ run = [w \in Runs |-> NoRun]
    /\ InitLimVars
    /\ traffic = [r \in Reqs |-> NoTraffic]
    /\ hist = NoHist
    /\ env = [admin |-> TRUE, redis |-> FALSE, secret |-> TRUE, db |-> TRUE]
    /\ \E n \in {NewPageSize - 1, NewPageSize + 2} : \E first \in BOOLEAN :
         rows = [i \in 1..n |->
                   IF first /\ i = 1
                     THEN Triaged(NewRow(EventOf(i), CreatedOf(i)))
                     ELSE NewRow(EventOf(i), CreatedOf(i))]

SpecRun == InitRun /\ [][NextBatch]_vars

\* Worker runs that overlap (a run started by hand while the scheduled one is
\* at work), over a queue of a few New rows; nothing coordinates them.
InitRuns == InitQueue(1..MaxRuns, MaxFail)

NextRuns == \E w \in Runs : Worker(w)

SpecRuns == InitRuns /\ [][NextRuns]_vars

\* The rate limiter: callers that acquire again and again while time passes.
InitLimiter ==
    /\ InitCommon
    /\ env \in [admin : {TRUE}, redis : BOOLEAN, secret : {TRUE}, db : {TRUE}]

NextLimiter ==
    \/ \E c \in LimCallers : acquire(c)
    \/ \E c \in LimCallers : answered(c)
    \/ \E c \in LimCallers : retry(c)
    \/ LimTickStep

SpecLimiter == InitLimiter /\ [][NextLimiter]_vars

\* The pipeline behind the limiter: the receiver handling one delivery and
\* one worker run, each notionFetch an acquire and then the request,
\* with or without a counter backend. The queue holds what earlier deliveries
\* and runs left: nothing, a New record, or a record already triaged and a
\* later New record of the same event.
InitThrottled ==
    /\ now = 0
    /\ pc = [r \in Reqs |-> "idle"]
    /\ call = [r \in Reqs |-> NoCall]
    /\ resp = [r \in Reqs |-> NoResp]
    /\ local = [r \in Reqs |-> NoLocal]
    /\ redis = EmptyRedis
    /\ run = [w \in Runs |-> NoRun]
    /\ InitLimVars
    /\ traffic = [r \in Reqs |-> NoTraffic]
    /\ hist = NoHist
    /\ env \in [admin : {TRUE}, redis : BOOLEAN, secret : {TRUE}, db : {TRUE}]
    /\ rows \in {<<>>,
                 <<NewRow("evt1", 0 - WindowMs)>>,
                 <<Triaged(NewRow("evt1", 0 - 2 * WindowMs)), NewRow("evt1", 0 - WindowMs)>>}

\* The process is inside notionFetch, before its request.
AtFetch(c) ==
    IF IsWorker(c)
      THEN run[1].pc \in {"idle", "query", "mark", "find", "dedupe", "review", "catch"}
      ELSE pc[Client] \in {"post_resolve", "post_exists", "post_write"}

NextThrottled ==
    \/ \E c \in LimCallers : env.redis /\ AtFetch(c) /\ ~lim[c].returned /\ acquire(c)
    \/ \E c \in LimCallers : answered(c)
    \/ \E c \in LimCallers : retry(c)
    \/ LimTickStep
    \/ /\ pc[Client] = "idle"
       /\ POST(Client, EventBody("evt1"), hmacSha256Hex(Secret, EventBody("evt1").raw))
    \/ \E ok \in BOOLEAN : getDatabaseDataSourceId(Client, ok)
    \/ \E ok \in BOOLEAN : eventExists(Client, ok)
    \/ \E ok \in BOOLEAN : writeEventToQueue(Client, ok, 0)
    \/ Worker(1)

SpecThrottled == InitThrottled /\ [][NextThrottled]_vars

\* The rate limiter for ever: the clock never stops. Times are kept relative
\* to the window before the current one: when the clock enters a new window,
\* every time held anywhere moves back by one window (a time further back
\* than that is as good as the start of the previous window).
Rebase(t) == IF t < 0 THEN t ELSE Max(t - WindowMs, 0)

LimTickWrap ==
    /\ IF now + LimTick < 2 * WindowMs
         THEN /\ now' = now + LimTick
              /\ grants' = [grants EXCEPT
                              !.log = SelectSeq(@, LAMBDA t : t > now' - WindowMs)]
              /\ UNCHANGED <<counter, lim>>
         ELSE /\ now' = now + LimTick - WindowMs
              /\ lim' = [c \in LimCallers |->
                           [lim[c] EXCEPT !.reset = Rebase(@), !.deniedAt = Rebase(@),
                                          !.wakeAt = Rebase(@), !.askedAt = Rebase(@)]]
              /\ counter' = [counter EXCEPT !.bucket = Max(@ - 1, 0)]
              /\ grants' = [log |-> SelectSeq([k \in 1..Len(grants.log) |->
                                                 grants.log[k] - WindowMs],
                                              LAMBDA t : t > now' - WindowMs),
                            bucket |-> Max(grants.bucket - 1, 0), n |-> grants.n]
    /\ UNCHANGED <<env, reqVars, redis, rows, run, traffic, hist>>

InitLimiterLive ==
    /\ InitCommon
    /\ env = [admin |-> TRUE, redis |-> TRUE, secret |-> TRUE, db |-> TRUE]

NextLimiterLive ==
    \/ \E c \in LimCallers : acquire(c)
    \/ \E c \in LimCallers : answered(c)
    \/ \E c \in LimCallers : retry(c)
    \/ LimTickWrap

\* Fair scheduling: the clock advances, every answer of the counter arrives,
\* and every timer that is due fires.
SpecLimiterLive ==
    /\ InitLimiterLive
    /\ [][NextLimiterLive]_vars
    /\ WF_vars(LimTickWrap)
    /\ \A c \in LimCallers : WF_vars(answered(c)) /\ WF_vars(retry(c))

\* ================================================================ claims
Upstream(r) ==
    traffic[r].gets + traffic[r].queries + traffic[r].creates + traffic[r].patches

WithEventId(e) == {i \in RowIds : rows[i].eventId = e}
Kept(e) == {i \in WithEventId(e) : rows[i].status # "Deduped"}
DeliveriesOf(e) == {r \in Deliveries : call[r].kind = "webhook" /\ call[r].body.id = e}
Answered(r, body) == pc[r] = "done" /\ resp[r].status = 200 /\ resp[r].body = body

\* C1. Webhook idempotence, sequential deliveries: a delivery that starts
\* after a delivery of the same event id was answered {ok: true} issues no
\* create and no patch and, unless an upstream request of its own fails, is
\* answered {ok: true, deduped: true}; a delivery answered {ok: true} issued
\* exactly one create; and when all the deliveries of an event id but the
\* first started after the first was answered, exactly one record with that
\* event id exists, and it is not Deduped.
WebhookIdempotence ==
    /\ \A r \in Deliveries :
         /\ (call[r].kind = "webhook" /\ call[r].after # {}) =>
              /\ traffic[r].creates = 0 /\ traffic[r].patches = 0
              /\ (pc[r] = "done" /\ resp[r].status = 200) => resp[r].body = "ok deduped"
         /\ Answered(r, "ok") => traffic[r].creates = 1
    /\ \A e \in EventIds :
         LET firsts == {r \in DeliveriesOf(e) : call[r].after = {}} IN
         (Cardinality(firsts) = 1 /\ \A r \in firsts : Answered(r, "ok")) =>
             /\ Cardinality(WithEventId(e)) = 1
             /\ Cardinality(Kept(e)) = 1

WebhookIdempotenceWitness ==
    \E r, q \in Deliveries :
        /\ Answered(q, "ok") /\ Answered(r, "ok deduped")
        /\ q \in call[r].after
        /\ Cardinality(WithEventId(call[r].body.id)) = 1
        /\ rows[1].status = "Needs human review"

\* C2. Worker dedup tie-break: when a worker run in which no upstream request
\* failed is over, of every two or more records that share an event id, were
\* all picked up by the run and have pairwise distinct creation times, the
\* earliest-created is in 'Needs human review' and every other one is Deduped
\* with its review flag false.
InBatch(w) == {run[w].batch[k] : k \in 1..Len(run[w].batch)}
Earliest(S) == CHOOSE x \in S : \A y \in S : rows[x].created <= rows[y].created

DedupTieBreak ==
    (run[1].pc = "done" /\ hist.fails = 0) =>
        \A e \in EventIds :
            LET S == WithEventId(e) IN
            (/\ Cardinality(S) >= 2
             /\ S \subseteq InBatch(1)
             /\ \A x, y \in S : x # y => rows[x].created # rows[y].created) =>
                \A i \in S :
                    IF i = Earliest(S)
                      THEN rows[i].status = "Needs human review"
                      ELSE rows[i].status = "Deduped" /\ ~rows[i].review

\* C3. Duplicate collapse after racing writers: when no delivery and no run is
\* in flight, no record is New or In Progress and no upstream request has
\* failed, at most one record of each event id is in a status other than
\* Deduped.
DuplicateCollapse ==
    (/\ \A r \in Deliveries : pc[r] \in {"idle", "done"}
     /\ run[1].pc \in {"idle", "done"}
     /\ hist.fails = 0
     /\ \A i \in RowIds : rows[i].status \notin {"New", "In Progress"}) =>
        \A e \in EventIds : Cardinality(Kept(e)) <= 1

\* C4. Verification-token at-most-once delivery: of the consume() calls that
\* started after a store(token) had returned, at most one returns the token.
AtMostOnceDelivery ==
    Cardinality({r \in Callers : /\ pc[r] = "done"
                                 /\ call[r].kind = "admin"
                                 /\ call[r].followsStore
                                 /\ resp[r].status = 200}) <= 1

\* C5. Verification-token one-time consumption, sequential calls, backend
\* configured: a consume() returns the token of the last store() when no
\* consume() since that store() has returned it and the key is read within
\* the validity window of the store(); otherwise (no store() yet, token
\* returned already, window over) it returns absent.
Expected(r) ==
    IF call[r].owed # Null
       /\ (local[r].readAt = -1 \/ local[r].readAt < call[r].owedUntil)
      THEN call[r].owed
      ELSE Null

OneTimeConsumption ==
    (/\ pc[Client] = "done"
     /\ call[Client].kind = "admin"
     /\ resp[Client].status \in {200, 404}
     /\ env.redis) => resp[Client].body = Expected(Client)

\* The second consume() after a store(): the first one took the token, the
\* window is still open, and the answer is absent.
OneTimeConsumptionWitness ==
    /\ pc[Client] = "done" /\ call[Client].kind = "admin"
    /\ resp[Client].status = 404
    /\ hist.stored # Null /\ hist.taken /\ now < hist.storedAt + TtlMs
    /\ call[Client].owed = Null

\* C6. Verification handshake hand-off: the first authorized call of the admin
\* endpoint after the receiver got a verification_token body, with the backend
\* configured and within the validity window, returns that token.
HandshakeHandOff ==
    (/\ pc[Client] = "done"
     /\ call[Client].kind = "admin"
     /\ env.admin /\ env.redis
     /\ call[Client].provided = AdminSecret
     /\ call[Client].handshake # Null
     /\ (local[Client].readAt = -1 \/ local[Client].readAt < call[Client].handshakeUntil)) =>
        resp[Client].status = 200 /\ resp[Client].body = call[Client].handshake

\* C9. Signature gate: a delivery that is not a bootstrap message issues an
\* upstream request only if a signing secret is configured and the supplied
\* signature is the hex HMAC of the raw body under it; with no secret it is
\* answered 500, and with a missing or other signature 401, without any
\* upstream request.
IsBootstrap(body) == body.json /\ body.token # Null

SignatureGate ==
    \A r \in Deliveries :
        (call[r].kind = "webhook" /\ ~IsBootstrap(call[r].body)) =>
            LET good == call[r].signature = hmacSha256Hex(Secret, call[r].body.raw) IN
            /\ Upstream(r) > 0 => env.secret /\ good
            /\ ~env.secret => resp[r].status = 500 /\ Upstream(r) = 0
            /\ (env.secret /\ ~good) => resp[r].status = 401 /\ Upstream(r) = 0

AnyIntervalBound == Len(grants.log) <= Rps

\* C7 as amended. The requests the counter granted within one counter window
\* are at most 3.
WindowBound == grants.n <= Rps

\* The quota of a window is used up and a further request was denied in it.
WindowBoundWitness ==
    /\ grants.n = Rps /\ grants.bucket = now \div WindowMs
    /\ \E c \in LimCallers : lim[c].pc = "sleeping" /\ lim[c].reset = (grants.bucket + 1) * WindowMs

\* C8. Blocking acquire: an acquire returns only on a granted request; after
\* a denial it sleeps max(250 ms, reset - now), and it asks the counter again
\* no earlier than 250 ms after the denial.
BlockingAcquire ==
    \A c \in LimCallers :
        /\ (lim[c].pc = "idle" /\ lim[c].returned) => lim[c].ok
        /\ lim[c].pc = "sleeping" =>
             /\ ~lim[c].ok
             /\ lim[c].wakeAt - lim[c].deniedAt = Max(MinWaitMs, lim[c].reset - lim[c].deniedAt)
        /\ (lim[c].pc = "answered" /\ lim[c].deniedAt # -1) =>
             lim[c].askedAt >= lim[c].deniedAt + MinWaitMs

\* A caller that an earlier acquire had returned to was denied and learnt of
\* it when the window was over already: it sleeps the 250 ms all the same;
\* the other caller has slept after a denial, asked again and was granted.
BlockingAcquireWitness ==
    \E c, d \in LimCallers :
        /\ lim[c].pc = "sleeping" /\ lim[c].returned
        /\ lim[c].reset - lim[c].deniedAt < MinWaitMs
        /\ lim[c].wakeAt = lim[c].deniedAt + MinWaitMs
        /\ lim[d].pc = "answered" /\ lim[d].ok
        /\ lim[d].deniedAt # -1

\* C11. End-to-end lifecycle: every delivery answered {ok: true} issued one
\* create, and the queue holds one record per such delivery, its event id
\* that of the delivery; a record in status New has its review flag false;
\* and when a worker run without upstream failure is over, a record it picked
\* up that is the only one of its event id is in 'Needs human review' with the
\* review flag true.
Lifecycle ==
    /\ \A r \in Deliveries :
         Answered(r, "ok") => traffic[r].creates = 1 /\ WithEventId(call[r].body.id) # {}
    /\ Len(rows) = Cardinality({r \in Deliveries : Answered(r, "ok")})
    /\ \A i \in RowIds : rows[i].status = "New" => ~rows[i].review
    /\ (run[1].pc = "done" /\ hist.fails = 0) =>
         \A i \in InBatch(1) :
            WithEventId(rows[i].eventId) = {i} =>
                rows[i].status = "Needs human review" /\ rows[i].review

\* One delivery was answered {ok: true}, and the run that picked its record
\* up is over.
LifecycleWitness ==
    /\ Answered(1, "ok") /\ hist.fails = 0
    /\ run[1].pc = "done" /\ run[1].batch = <<1>>
    /\ WithEventId(call[1].body.id) = {1}
    /\ rows[1].status = "Needs human review" /\ rows[1].review

\* C12. Admin token retrieval: the admin endpoint answers 500 when no admin
\* secret is configured, 401 when the supplied header differs from it, and
\* otherwise 404 with no token or 200 with the stored token; a call answered
\* 500 or 401 has read no key, and a token that was stored and not yet
\* returned is, within its lifetime, still in the store after it, with no
\* used marker.
AdminRetrieval ==
    (pc[Client] = "done" /\ call[Client].kind = "admin") =>
        /\ ~env.admin => resp[Client].status = 500
        /\ (env.admin /\ call[Client].provided # AdminSecret) => resp[Client].status = 401
        /\ (env.admin /\ call[Client].provided = AdminSecret) =>
              \/ resp[Client].status = 404 /\ resp[Client].body = Null
              \/ /\ resp[Client].status = 200
                 /\ resp[Client].body \in Tokens
                 /\ resp[Client].body = hist.stored
        /\ resp[Client].status \in {500, 401} =>
              /\ local[Client] = NoLocal
              /\ (env.redis /\ call[Client].owed # Null /\ now < call[Client].owedUntil) =>
                    /\ RedisGet(KEY) = call[Client].owed
                    /\ RedisGet(USED_KEY) = Null

\* A call with a wrong header was answered 401 while a token was waiting.
AdminRetrievalWitness ==
    /\ pc[Client] = "done" /\ call[Client].kind = "admin"
    /\ env.admin /\ env.redis
    /\ call[Client].provided # AdminSecret
    /\ resp[Client].status = 401
    /\ call[Client].owed \in Tokens /\ now < call[Client].owedUntil
    /\ RedisGet(KEY) = call[Client].owed

\* C13. Status state machine: every status change of a row in a worker run
\* is New -> In Progress or In Progress -> Deduped, 'Needs human review' or
\* Error; no row reaches a terminal status directly from New, also when the
\* mark-in-progress write fails.
Terminal == {"Deduped", "Needs human review", "Error"}

Follows(from, to) ==
    \/ from = "New" /\ to = "In Progress"
    \/ from = "In Progress" /\ to \in Terminal

StatusStateMachine ==
    [][\A i \in RowIds :
         rows'[i].status # rows[i].status => Follows(rows[i].status, rows'[i].status)]_vars

\* C14. Keeper safety: of the records that share an event id, the one created
\* before all the others is never Deduped, however many they are and in
\* whatever order the store returns them.
KeeperSafety ==
    \A e \in EventIds :
        \A i \in WithEventId(e) :
            (\A j \in WithEventId(e) \ {i} : rows[i].created < rows[j].created) =>
                rows[i].status # "Deduped"

\* C15. Rate limiting precedes every upstream call: with a counter backend,
\* a step in which the receiver or the worker issues an upstream request
\* starts in a state where an acquire of that process has returned, on a
\* granted answer, and has served no request yet; without a backend no
\* caller ever asks the counter or sleeps.
WorkerFetches == run'[1] # run[1]
ReceiverFetches == Upstream(Client)' > Upstream(Client)
Acquired(c) == lim[c].pc = "idle" /\ lim[c].returned /\ lim[c].ok

ThrottleFirst ==
    [][/\ (env.redis /\ WorkerFetches) => Acquired("worker")
       /\ (env.redis /\ ReceiverFetches) => Acquired("receiver")
       /\ ~env.redis => lim' = lim /\ counter' = counter]_vars

\* With a backend: the worker, once denied, has been granted its acquire and
\* has issued the request it was for, after the receiver's requests.
ThrottleFirstWitness ==
    /\ env.redis
    /\ run[1].pc = "query" /\ lim["worker"].deniedAt # -1 /\ ~lim["worker"].returned
    /\ Upstream(Client) = Rps

\* Without a backend: requests are issued all the same.
ThrottleFirstOpenWitness ==
    /\ ~env.redis
    /\ run[1].pc = "done" /\ Len(run[1].batch) > 0
    /\ Answered(Client, "ok")

\* C16. Worker run ordering: the batch of a run holds at most 25 rows, each
\* once, in ascending creation time, and every New row left out was created
\* no earlier than every row of the batch; the rows behind the row at hand
\* are still New, and the rows before it are done with: in a terminal status,
\* unless their error patch failed.
RunOrdering ==
    LET b == run[1].batch IN
    run[1].pc \in {"mark", "find", "dedupe", "review", "catch", "done"} =>
        /\ Len(b) <= NewPageSize
        /\ \A j, k \in 1..Len(b) : j < k =>
              b[j] # b[k] /\ rows[b[j]].created <= rows[b[k]].created
        /\ \A x \in RowIds \ InBatch(1) :
              rows[x].status = "New" =>
                 \A k \in 1..Len(b) : rows[b[k]].created <= rows[x].created
        /\ \A k \in 1..Len(b) :
              /\ k > run[1].i => rows[b[k]].status = "New"
              /\ (k < run[1].i \/ run[1].pc = "done") =>
                    b[k] \in run[1].lost \/ rows[b[k]].status \in Terminal

\* A run over a full page is at its last row; more New rows were left out, and
\* a row before the last one was patched to Error.
RunOrderingWitness ==
    /\ run[1].pc = "find" /\ run[1].i = NewPageSize
    /\ Len(run[1].batch) = NewPageSize
    /\ \E x \in RowIds \ InBatch(1) : rows[x].status = "New"
    /\ \E k \in 1..(NewPageSize - 1) : rows[run[1].batch[k]].status = "Error"

\* C17. Re-store after consumption: when a store() has completed after a
\* consume() had returned the token before it, the used marker is gone and
\* the new token is in the store for its lifetime; the first authorized
\* consume() after that store(), reading within the lifetime, returns the new
\* token, and the one after that returns absent.
ReStore ==
    /\ (pc[Client] = "done" /\ call[Client].kind = "store" /\ env.redis
        /\ hist.restored /\ now < call[Client].setAt + TtlMs) =>
          RedisGet(USED_KEY) = Null /\ RedisGet(KEY) = call[Client].token
    /\ (pc[Client] = "done" /\ call[Client].kind = "admin" /\ env.redis /\ env.admin
        /\ call[Client].provided = AdminSecret /\ call[Client].restored) =>
          IF call[Client].taken
            THEN resp[Client].status = 404
            ELSE local[Client].readAt # -1 /\ local[Client].readAt < call[Client].owedUntil =>
                   /\ resp[Client].status = 200
                   /\ resp[Client].body = hist.stored

\* The token stored after an earlier one was consumed has just been returned.
ReStoreWitness ==
    /\ pc[Client] = "done" /\ call[Client].kind = "admin"
    /\ call[Client].restored /\ ~call[Client].taken
    /\ resp[Client].status = 200 /\ resp[Client].body = hist.stored

\* And the call after that one was answered 404 within the token's lifetime.
ReStoreAbsentWitness ==
    /\ pc[Client] = "done" /\ call[Client].kind = "admin"
    /\ call[Client].provided = AdminSecret
    /\ call[Client].restored /\ call[Client].taken
    /\ resp[Client].status = 404 /\ now < hist.storedAt + TtlMs

\* C18. Terminal statuses are stable under concurrent worker runs: no step
\* of a run changes the status of a row that is Deduped, in 'Needs human
\* review' or in Error.
TerminalStable ==
    [][\A i \in RowIds :
         rows[i].status \in Terminal => rows'[i].status = rows[i].status]_vars

\* C19. Review flag agrees with status: the review flag of a record is true
\* exactly when its status is 'Needs human review' or Error.
ReviewAgrees ==
    \A i \in RowIds :
        rows[i].review <=> rows[i].status \in {"Needs human review", "Error"}

\* C20. Acquire eventually returns: under fair scheduling, with a counter
\* whose windows keep resetting, every acquire that is under way (waiting for
\* the counter's answer or asleep after a denial) eventually returns.
AcquireReturns ==
    \A c \in LimCallers :
        (lim[c].pc \in {"answered", "sleeping"}) ~> (lim[c].pc = "idle")

====
